---- MODULE Spec2Model ----
(***************************************************************************)
(* Model of the txtdist crate (src/src/lib.rs): the N2Array grid and the   *)
(* two distance functions levenshtein and damerau_levenshtein.             *)
(*                                                                         *)
(* A string is a sequence of characters (code points).  str::len() is the  *)
(* number of UTF-8 bytes, str::chars() walks the characters.               *)
(*                                                                         *)
(* Spec   runs one call of one of the two functions, one loop iteration    *)
(*        per step.                                                        *)
(* SpecFn applies the two functions, as operators built from the same loop *)
(*        bodies, to the strings drawn by InitFn.                          *)
(***************************************************************************)
EXTENDS Integers, Sequences, FiniteSets

VARIABLES fn, source, target, third, pc, matrix, i, row, col,
          last_row, last_match_col, trans_cell, result, retStale, dist

vars == <<fn, source, target, third, pc, matrix, i, row, col,
          last_row, last_match_col, trans_cell, result, retStale, dist>>

\* Longest source and target string, in characters.
MaxLen == 3
\* Longest third string (the middle string of the triangle inequality).
MaxThird == 1

\* The characters of the inputs: 'a', 'b' and the two-byte 'é' (U+00E9).
Chars == {97, 98, 233}

Strings(k) == UNION {[1..j -> Chars] : j \in 0..k}

Min(a, b) == IF a < b THEN a ELSE b

Max(a, b) == IF a < b THEN b ELSE a

\* Number of bytes of the UTF-8 encoding of one character.
Utf8Len(c) == IF c < 128 THEN 1 ELSE IF c < 2048 THEN 2 ELSE IF c < 65536 THEN 3 ELSE 4

RECURSIVE StrLen(_)
\* str::len(): the length of a string in bytes.
StrLen(s) == IF s = <<>> THEN 0 ELSE Utf8Len(Head(s)) + StrLen(Tail(s))

(***************************************************************************)
(* N2Array.  buf is the flat vector (1-based here, 0-based in the source). *)
(* writes and stale are history fields: the number of index_mut stores per *)
(* element since allocation, and the cells the loop bodies read before any *)
(* store to them.                                                          *)
(***************************************************************************)
N2New(x, y, value) ==
    [y_size |-> y,
     buf    |-> [k \in 1..(x * y) |-> value],
     writes |-> [k \in 1..(x * y) |-> 0],
     stale  |-> {}]

NoArray == N2New(0, 0, 0)

\* The flat position of (x, y), as computed by index and index_mut.
Flat(mat, x, y) == (x * mat.y_size) + y

\* Vec indexing panics outside 0..len.
InBuf(mat, x, y) == Flat(mat, x, y) >= 0 /\ Flat(mat, x, y) < Len(mat.buf)

Index(mat, x, y) == mat.buf[Flat(mat, x, y) + 1]

Written(mat, x, y) == mat.writes[Flat(mat, x, y) + 1] > 0

\* A read by a loop body: the value is Index(mat, x, y); the history notes
\* a cell read while it still holds its allocation value.
Read(mat, x, y) ==
    IF Written(mat, x, y) THEN mat
    ELSE [mat EXCEPT !.stale = @ \cup {<<x, y>>}]

IndexMut(mat, x, y, value) ==
    [mat EXCEPT !.buf[Flat(mat, x, y) + 1] = value,
                !.writes[Flat(mat, x, y) + 1] = @ + 1]

(***************************************************************************)
(* levenshtein                                                             *)
(***************************************************************************)
n == StrLen(source)

m == StrLen(target)

\* Line 60: matrix[(i, 0)] = i.
LevRowBody(mat, k) == IndexMut(mat, k, 0, k)

\* Line 64: matrix[(0, i)] = i.
LevColBody(mat, k) == IndexMut(mat, 0, k, k)

\* LevCell without the term matrix[(row, col-1)] + 1.
LevCellNoInsert(mat, r, c, char_s, char_t) ==
    IF char_s = char_t
    THEN IndexMut(Read(mat, r - 1, c - 1), r, c, Index(mat, r - 1, c - 1))
    ELSE IndexMut(Read(Read(mat, r - 1, c), r - 1, c - 1), r, c,
                  Min(Index(mat, r - 1, c) + 1, Index(mat, r - 1, c - 1) + 1))

\* Lines 72-78: the recurrence for cell (r, c), r and c counted from 1.
LevCell(mat, r, c, char_s, char_t) ==
    IF char_s = char_t
    THEN IndexMut(Read(mat, r - 1, c - 1), r, c, Index(mat, r - 1, c - 1))
    ELSE IndexMut(Read(Read(Read(mat, r - 1, c), r, c - 1), r - 1, c - 1), r, c,
                  Min(Index(mat, r - 1, c) + 1,
                      Min(Index(mat, r, c - 1) + 1,
                          Index(mat, r - 1, c - 1) + 1)))

LevStart ==
    /\ pc = "start" /\ fn = "lev"
    /\ matrix' = N2New(n + 1, m + 1, 0)
    /\ i' = 1
    /\ pc' = "lev_rows"
    /\ UNCHANGED <<fn, source, target, third, row, col, last_row,
                   last_match_col, trans_cell, result, retStale, dist>>

LevRows ==
    /\ pc = "lev_rows"
    /\ IF i < n + 1
       THEN /\ matrix' = LevRowBody(matrix, i)
            /\ i' = i + 1
            /\ pc' = pc
       ELSE /\ matrix' = matrix
            /\ i' = 1
            /\ pc' = "lev_cols"
    /\ UNCHANGED <<fn, source, target, third, row, col, last_row,
                   last_match_col, trans_cell, result, retStale, dist>>

LevCols ==
    /\ pc = "lev_cols"
    /\ IF i < m + 1
       THEN /\ matrix' = LevColBody(matrix, i)
            /\ i' = i + 1
            /\ pc' = pc
       ELSE /\ matrix' = matrix
            /\ i' = 0
            /\ pc' = "lev_outer"
    /\ UNCHANGED <<fn, source, target, third, row, col, last_row,
                   last_match_col, trans_cell, result, retStale, dist>>

\* Line 67: the next character of source.chars().enumerate(), if any.
LevOuter ==
    /\ pc = "lev_outer"
    /\ IF row < Len(source)
       THEN /\ row' = row + 1
            /\ col' = 0
            /\ pc' = "lev_inner"
       ELSE /\ UNCHANGED <<row, col>>
            /\ pc' = "lev_ret"
    /\ UNCHANGED <<fn, source, target, third, matrix, i, last_row,
                   last_match_col, trans_cell, result, retStale, dist>>

\* Lines 70-79: the next character of target.chars().enumerate(), if any.
LevInner ==
    /\ pc = "lev_inner"
    /\ IF col < Len(target)
       THEN /\ col' = col + 1
            /\ matrix' = LevCell(matrix, row, col + 1, source[row], target[col + 1])
            /\ pc' = pc
       ELSE /\ UNCHANGED <<col, matrix>>
            /\ pc' = "lev_outer"
    /\ UNCHANGED <<fn, source, target, third, i, row, last_row,
                   last_match_col, trans_cell, result, retStale, dist>>

\* Line 82.
LevRet ==
    /\ pc = "lev_ret"
    /\ result' = Index(matrix, n, m)
    /\ retStale' = ~Written(matrix, n, m)
    /\ pc' = "done"
    /\ UNCHANGED <<fn, source, target, third, matrix, i, row, col, last_row,
                   last_match_col, trans_cell, dist>>

(***************************************************************************)
(* damerau_levenshtein                                                     *)
(***************************************************************************)
\* Line 112.
inf == n + m

\* DamRowBody storing i at (i, 1) instead of (i+1, 1).
DamRowBodyShifted(mat, k, infv) == IndexMut(IndexMut(mat, k + 1, 0, infv), k, 1, k)

\* Lines 117-118: matrix[(i+1, 0)] = inf; matrix[(i+1, 1)] = i.
DamRowBody(mat, k, infv) == IndexMut(IndexMut(mat, k + 1, 0, infv), k + 1, 1, k)

\* Lines 121-122: matrix[(0, j+1)] = inf; matrix[(1, j+1)] = j.
DamColBody(mat, k, infv) == IndexMut(IndexMut(mat, 0, k + 1, infv), 1, k + 1, k)

\* Line 133: *last_row.get(&char_t).unwrap_or(&0).
LastRowGet(map, c) == IF c \in DOMAIN map THEN map[c] ELSE 0

\* LastRowInsert storing the matrix row, row + 1, instead of row.
LastRowInsertMatrixRow(map, c, r) ==
    [x \in (DOMAIN map) \cup {c} |-> IF x = c THEN r + 1 ELSE map[x]]

\* Line 153: last_row.insert(char_s, row).
LastRowInsert(map, c, r) ==
    [x \in (DOMAIN map) \cup {c} |-> IF x = c THEN r ELSE map[x]]

\* Line 134.
Cost(char_s, char_t) == IF char_s = char_t THEN 0 ELSE 1

\* Lines 148-150.
NextLastMatchCol(cost, c, lmc) == IF cost = 0 THEN c ELSE lmc

\* Lines 139-141 evaluate without a panic: the indexed element exists and
\* neither usize subtraction goes below zero.
TransOk(mat, r, c, lmr, lmc) ==
    /\ InBuf(mat, lmr, lmc)
    /\ r - lmr - 1 >= 0
    /\ c - lmc - 1 >= 0

\* DamCell with dist_sub = matrix[(row, col)] + 1 whatever the characters.
DamCellSubAlwaysCosts(mat, r, c, char_s, char_t, lmr, lmc) ==
    LET dist_add   == Index(mat, r, c + 1) + 1
        dist_del   == Index(mat, r + 1, c) + 1
        dist_sub   == Index(mat, r, c) + 1
        dist_trans == Index(mat, lmr, lmc) + (r - lmr - 1) + 1 + (c - lmc - 1)
        d          == Min(Min(dist_add, dist_del), Min(dist_sub, dist_trans))
    IN  IndexMut(Read(Read(Read(Read(mat, r, c + 1), r + 1, c), r, c), lmr, lmc),
                 r + 1, c + 1, d)

\* Lines 136-146: the recurrence for cell (r+1, c+1), r and c counted from 1.
DamCell(mat, r, c, char_s, char_t, lmr, lmc) ==
    LET dist_add   == Index(mat, r, c + 1) + 1
        dist_del   == Index(mat, r + 1, c) + 1
        dist_sub   == Index(mat, r, c) + Cost(char_s, char_t)
        dist_trans == Index(mat, lmr, lmc) + (r - lmr - 1) + 1 + (c - lmc - 1)
        d          == Min(Min(dist_add, dist_del), Min(dist_sub, dist_trans))
    IN  IndexMut(Read(Read(Read(Read(mat, r, c + 1), r + 1, c), r, c), lmr, lmc),
                 r + 1, c + 1, d)

\* Lines 103-115.
DamStart ==
    /\ pc = "start" /\ fn = "dam"
    /\ IF n = 0
       THEN /\ result' = m
            /\ pc' = "done"
            /\ UNCHANGED <<matrix, i>>
       ELSE IF m = 0
       THEN /\ result' = n
            /\ pc' = "done"
            /\ UNCHANGED <<matrix, i>>
       ELSE IF n = m /\ source = target
       THEN /\ result' = 0
            /\ pc' = "done"
            /\ UNCHANGED <<matrix, i>>
       ELSE /\ matrix' = IndexMut(N2New(n + 2, m + 2, 0), 0, 0, inf)
            /\ i' = 0
            /\ pc' = "dam_rows"
            /\ result' = result
    /\ UNCHANGED <<fn, source, target, third, row, col, last_row,
                   last_match_col, trans_cell, retStale, dist>>

DamRows ==
    /\ pc = "dam_rows"
    /\ IF i < n + 1
       THEN /\ matrix' = DamRowBody(matrix, i, inf)
            /\ i' = i + 1
            /\ pc' = pc
       ELSE /\ matrix' = matrix
            /\ i' = 0
            /\ pc' = "dam_cols"
    /\ UNCHANGED <<fn, source, target, third, row, col, last_row,
                   last_match_col, trans_cell, result, retStale, dist>>

DamCols ==
    /\ pc = "dam_cols"
    /\ IF i < m + 1
       THEN /\ matrix' = DamColBody(matrix, i, inf)
            /\ i' = i + 1
            /\ pc' = pc
       ELSE /\ matrix' = matrix
            /\ i' = 0
            /\ pc' = "dam_outer"
    /\ UNCHANGED <<fn, source, target, third, row, col, last_row,
                   last_match_col, trans_cell, result, retStale, dist>>

\* Lines 127-129: the next character of source.chars().enumerate(), if any.
DamOuter ==
    /\ pc = "dam_outer"
    /\ IF row < Len(source)
       THEN /\ last_match_col' = 0
            /\ row' = row + 1
            /\ col' = 0
            /\ pc' = "dam_inner"
       ELSE /\ UNCHANGED <<last_match_col, row, col>>
            /\ pc' = "dam_ret"
    /\ UNCHANGED <<fn, source, target, third, matrix, i, last_row,
                   trans_cell, result, retStale, dist>>

\* Lines 131-153: one iteration of the inner loop, or, when target.chars()
\* is exhausted, the insert that ends the outer iteration.  In a build with
\* overflow checks a failing subtraction panics, as does an index outside
\* the vector.
DamInner ==
    /\ pc = "dam_inner"
    /\ IF col < Len(target)
       THEN LET c      == col + 1
                char_s == source[row]
                char_t == target[c]
                lmr    == LastRowGet(last_row, char_t)
            IN  /\ trans_cell' = <<lmr, last_match_col>>
                /\ IF TransOk(matrix, row, c, lmr, last_match_col)
                   THEN /\ col' = c
                        /\ matrix' = DamCell(matrix, row, c, char_s, char_t,
                                             lmr, last_match_col)
                        /\ last_match_col' =
                              NextLastMatchCol(Cost(char_s, char_t), c, last_match_col)
                        /\ pc' = pc
                   ELSE /\ col' = c
                        /\ pc' = "panic"
                        /\ UNCHANGED <<matrix, last_match_col>>
                /\ UNCHANGED last_row
       ELSE /\ last_row' = LastRowInsert(last_row, source[row], row)
            /\ pc' = "dam_outer"
            /\ UNCHANGED <<col, matrix, last_match_col, trans_cell>>
    /\ UNCHANGED <<fn, source, target, third, i, row, result, retStale, dist>>

\* Line 156.
DamRet ==
    /\ pc = "dam_ret"
    /\ result' = Index(matrix, n + 1, m + 1)
    /\ retStale' = ~Written(matrix, n + 1, m + 1)
    /\ pc' = "done"
    /\ UNCHANGED <<fn, source, target, third, matrix, i, row, col, last_row,
                   last_match_col, trans_cell, dist>>

(***************************************************************************)
(* The two functions as operators: the same loop bodies, run to the end.   *)
(***************************************************************************)
RECURSIVE LevRowsFrom(_, _, _)
\* Lines 59-61, from index k on.
LevRowsFrom(mat, k, nn) ==
    IF k < nn + 1 THEN LevRowsFrom(LevRowBody(mat, k), k + 1, nn) ELSE mat

RECURSIVE LevColsFrom(_, _, _)
\* Lines 63-65, from index k on.
LevColsFrom(mat, k, mm) ==
    IF k < mm + 1 THEN LevColsFrom(LevColBody(mat, k), k + 1, mm) ELSE mat

RECURSIVE LevFill(_, _, _, _, _)
\* Lines 67-80, from row r on, c characters of the target done in that row.
LevFill(mat, src, tgt, r, c) ==
    IF r > Len(src) THEN mat
    ELSE IF c < Len(tgt)
         THEN LevFill(LevCell(mat, r, c + 1, src[r], tgt[c + 1]), src, tgt, r, c + 1)
         ELSE LevFill(mat, src, tgt, r + 1, 0)

\* Lines 54-83.
levenshtein(src, tgt) ==
    LET nn == StrLen(src)
        mm == StrLen(tgt)
        m0 == N2New(nn + 1, mm + 1, 0)
        m1 == LevRowsFrom(m0, 1, nn)
        m2 == LevColsFrom(m1, 1, mm)
        m3 == LevFill(m2, src, tgt, 1, 0)
    IN  Index(m3, nn, mm)

RECURSIVE DamRowsFrom(_, _, _, _)
\* Lines 116-119, from index k on.
DamRowsFrom(mat, k, nn, infv) ==
    IF k < nn + 1 THEN DamRowsFrom(DamRowBody(mat, k, infv), k + 1, nn, infv) ELSE mat

RECURSIVE DamColsFrom(_, _, _, _)
\* Lines 120-123, from index k on.
DamColsFrom(mat, k, mm, infv) ==
    IF k < mm + 1 THEN DamColsFrom(DamColBody(mat, k, infv), k + 1, mm, infv) ELSE mat

RECURSIVE DamFill(_, _, _, _, _)
\* Lines 127-154, from row r on, c characters of the target done in that row.
\* st holds the matrix, last_row and last_match_col; st.ok turns FALSE when
\* the body panics.
DamFill(st, src, tgt, r, c) ==
    IF ~st.ok \/ r > Len(src) THEN st
    ELSE IF c < Len(tgt)
         THEN LET cc  == c + 1
                  lmr == LastRowGet(st.last_row, tgt[cc])
              IN  IF TransOk(st.matrix, r, cc, lmr, st.last_match_col)
                  THEN DamFill([matrix |-> DamCell(st.matrix, r, cc, src[r], tgt[cc],
                                                   lmr, st.last_match_col),
                                last_row |-> st.last_row,
                                last_match_col |->
                                    NextLastMatchCol(Cost(src[r], tgt[cc]), cc,
                                                     st.last_match_col),
                                ok |-> TRUE],
                               src, tgt, r, cc)
                  ELSE [st EXCEPT !.ok = FALSE]
         ELSE DamFill([st EXCEPT !.last_row = LastRowInsert(@, src[r], r),
                                 !.last_match_col = 0],
                      src, tgt, r + 1, 0)

\* The value of a call that panicked instead of returning.
Panicked == -1

\* Lines 102-157.
damerau_levenshtein(src, tgt) ==
    LET nn   == StrLen(src)
        mm   == StrLen(tgt)
        infv == nn + mm
        m0   == IndexMut(N2New(nn + 2, mm + 2, 0), 0, 0, infv)
        m1   == DamRowsFrom(m0, 0, nn, infv)
        m2   == DamColsFrom(m1, 0, mm, infv)
        st   == DamFill([matrix |-> m2, last_row |-> [c \in {} |-> 0],
                         last_match_col |-> 0, ok |-> TRUE], src, tgt, 1, 0)
    IN  IF nn = 0 THEN mm
        ELSE IF mm = 0 THEN nn
        ELSE IF nn = mm /\ src = tgt THEN 0
        ELSE IF st.ok THEN Index(st.matrix, nn + 1, mm + 1) ELSE Panicked

NoDist == [lev_st |-> 0, lev_ts |-> 0, dam_st |-> 0, dam_ts |-> 0,
           lev_sx |-> 0, lev_xt |-> 0]

Init ==
    /\ fn \in {"lev", "dam"}
    /\ source \in Strings(MaxLen)
    /\ target \in Strings(MaxLen)
    /\ third = <<>>
    /\ pc = "start"
    /\ matrix = NoArray
    /\ i = 0 /\ row = 0 /\ col = 0
    /\ last_row = [c \in {} |-> 0]
    /\ last_match_col = 0
    /\ trans_cell = <<0, 0>>
    /\ result = 0
    /\ retStale = FALSE
    /\ dist = NoDist

Next ==
    \/ LevStart
    \/ LevRows
    \/ LevCols
    \/ LevOuter
    \/ LevInner
    \/ LevRet
    \/ DamStart
    \/ DamRows
    \/ DamCols
    \/ DamOuter
    \/ DamInner
    \/ DamRet

Spec == Init /\ [][Next]_vars


(***************************************************************************)
(* SpecFn: the functions applied to the strings drawn by InitFn.           *)
(***************************************************************************)
InitFn ==
    /\ fn = "both"
    /\ source \in Strings(MaxLen)
    /\ target \in Strings(MaxLen)
    /\ third = <<>>
    /\ pc = "fn_start"
    /\ matrix = NoArray
    /\ i = 0 /\ row = 0 /\ col = 0
    /\ last_row = [c \in {} |-> 0]
    /\ last_match_col = 0
    /\ trans_cell = <<0, 0>>
    /\ result = 0
    /\ retStale = FALSE
    /\ dist = NoDist

\* Both functions on (source, target) and on (target, source).
FnPair ==
    /\ pc = "fn_start"
    /\ dist' = [dist EXCEPT !.lev_st = levenshtein(source, target),
                            !.lev_ts = levenshtein(target, source),
                            !.dam_st = damerau_levenshtein(source, target),
                            !.dam_ts = damerau_levenshtein(target, source)]
    /\ pc' = "fn_pair"
    /\ UNCHANGED <<fn, source, target, third, matrix, i, row, col, last_row,
                   last_match_col, trans_cell, result, retStale>>

\* levenshtein on (source, target), (source, x) and (x, target).
FnTriangle ==
    /\ pc = "fn_start"
    /\ \E x \in Strings(MaxThird) :
          /\ third' = x
          /\ dist' = [dist EXCEPT !.lev_st = levenshtein(source, target),
                                  !.lev_sx = levenshtein(source, x),
                                  !.lev_xt = levenshtein(x, target)]
    /\ pc' = "fn_triangle"
    /\ UNCHANGED <<fn, source, target, matrix, i, row, col, last_row,
                   last_match_col, trans_cell, result, retStale>>

NextFn == FnPair \/ FnTriangle

SpecFn == InitFn /\ [][NextFn]_vars

(***************************************************************************)
(* Reference distances, over character prefixes.                           *)
(***************************************************************************)
Front(s) == SubSeq(s, 1, Len(s) - 1)

Last(s) == s[Len(s)]

MinOf(S) == CHOOSE x \in S : \A y \in S : x <= y

RECURSIVE RefLev(_, _)
\* Fewest insertions, deletions and substitutions turning s into t.
RefLev(s, t) ==
    IF Len(s) = 0 THEN Len(t)
    ELSE IF Len(t) = 0 THEN Len(s)
    ELSE Min(RefLev(Front(s), t) + 1,
             Min(RefLev(s, Front(t)) + 1,
                 RefLev(Front(s), Front(t)) + (IF Last(s) = Last(t) THEN 0 ELSE 1)))

RECURSIVE RefDam(_, _)
\* Fewest insertions, deletions, substitutions and transpositions of two
\* adjacent characters turning s into t (unrestricted: a transposed pair may
\* be edited again).
RefDam(s, t) ==
    IF Len(s) = 0 THEN Len(t)
    ELSE IF Len(t) = 0 THEN Len(s)
    ELSE LET a == Len(s)
             b == Len(t)
             swaps == {RefDam(SubSeq(s, 1, k - 1), SubSeq(t, 1, l - 1))
                         + (a - k - 1) + 1 + (b - l - 1) :
                       <<k, l>> \in {p \in (1..(a - 1)) \X (1..(b - 1)) :
                                       s[p[1]] = t[b] /\ s[a] = t[p[2]]}}
         IN  MinOf({RefDam(Front(s), t) + 1,
                    RefDam(s, Front(t)) + 1,
                    RefDam(Front(s), Front(t)) + (IF Last(s) = Last(t) THEN 0 ELSE 1)}
                   \cup swaps)


(***************************************************************************)
(* Properties.                                                             *)
(***************************************************************************)
\* The cells (x, y) of the grid, x below the row count and y below y_size.
Cells(mat) ==
    IF mat.y_size = 0 THEN {}
    ELSE (0..((Len(mat.buf) \div mat.y_size) - 1)) \X (0..(mat.y_size - 1))

Writes(mat, x, y) == mat.writes[Flat(mat, x, y) + 1]

\* The positions at which two strings of equal length differ.
Diff(s, t) == {k \in 1..Len(s) : s[k] # t[k]}

\* C1: levenshtein(source, target) is the fewest single-character
\* insertions, deletions and substitutions turning source into target, for
\* every pair of strings, multi-byte characters included.
C1_LevenshteinIsEditDistance ==
    (pc = "done" /\ fn = "lev") => result = RefLev(source, target)

\* C2: damerau_levenshtein(source, target) is the fewest insertions,
\* deletions, substitutions and transpositions of adjacent characters
\* turning source into target, for every pair of strings.
C2_DamerauIsEditDistance ==
    (pc = "done" /\ fn = "dam") => result = RefDam(source, target)

\* C3: with an empty source either function returns the number of
\* characters of target, and with an empty target the number of characters
\* of source.
C3_EmptyStringBoundary ==
    pc = "done" => /\ source = <<>> => result = Len(target)
                   /\ target = <<>> => result = Len(source)

\* C4: both functions are symmetric in their two arguments.
C4_Symmetry ==
    pc = "fn_pair" => /\ dist.lev_st = dist.lev_ts
                      /\ dist.dam_st = dist.dam_ts

C4_Witness ==
    /\ pc = "fn_pair"
    /\ Len(source) = 3 /\ source # target
    /\ dist.lev_st = 2 /\ dist.lev_ts = 2
    /\ dist.dam_st = 1 /\ dist.dam_ts = 1

\* C5: damerau_levenshtein(s, t) <= levenshtein(s, t) for all strings.
C5_DamerauAtMostLevenshtein ==
    pc = "fn_pair" => dist.dam_st <= dist.lev_st

C5_Witness ==
    /\ pc = "fn_pair"
    /\ Len(source) = 3 /\ Len(target) = 3
    /\ dist.dam_st = 1 /\ dist.lev_st = 2

\* C6: levenshtein(s, u) <= levenshtein(s, t) + levenshtein(t, u) for all
\* strings s, t and u (here source, third and target).
C6_TriangleInequality ==
    pc = "fn_triangle" => dist.lev_st <= dist.lev_sx + dist.lev_xt

\* C7: two strings with the same number of characters that differ at
\* exactly one position are at distance 1 under both functions.
C7_SingleSubstitution ==
    (pc = "done" /\ Len(source) = Len(target)
                 /\ Cardinality(Diff(source, target)) = 1) => result = 1

\* C8: the value returned is at most the larger of the two character
\* counts, and damerau_levenshtein does not return the sum of the two
\* character counts when both strings are non-empty.
C8_BoundedByLongerString ==
    pc = "done" =>
        /\ result <= Max(Len(source), Len(target))
        /\ (fn = "dam" /\ source # <<>> /\ target # <<>>)
               => result # Len(source) + Len(target)

\* C9: in every inner-loop iteration of damerau_levenshtein,
\* last_match_row <= row - 1 and last_match_col <= col - 1, so neither
\* subtraction of dist_trans underflows, and the cell
\* (last_match_row, last_match_col) lies inside the (n+2) x (m+2) grid.
C9_TransCellInRange ==
    /\ pc # "panic"
    /\ (pc \in {"dam_inner", "panic"} /\ col >= 1) =>
           /\ trans_cell[1] <= row - 1
           /\ trans_cell[2] <= col - 1
           /\ trans_cell[1] < n + 2
           /\ trans_cell[2] < m + 2

C9_Witness ==
    /\ pc = "dam_inner"
    /\ col >= 2 /\ row >= 2
    /\ trans_cell = <<row - 1, col - 1>>
    /\ Index(matrix, row + 1, col + 1) < Index(matrix, row, col) + 1

\* C10 as stated: every grid cell is written exactly once after allocation
\* and before any read of it, the final read included.
C10_WrittenExactlyOnceBeforeRead ==
    /\ matrix.stale = {}
    /\ ~retStale
    /\ \A p \in Cells(matrix) : Writes(matrix, p[1], p[2]) <= 1
    /\ (pc = "done" /\ matrix # NoArray) =>
           \A p \in Cells(matrix) : Writes(matrix, p[1], p[2]) = 1

\* The number of stores a finished run has made to cell (x, y).
FinalWrites(x, y) ==
    IF fn = "lev"
    THEN IF <<x, y>> = <<0, 0>> THEN 0
         ELSE IF x = 0 \/ y = 0 \/ (x <= Len(source) /\ y <= Len(target)) THEN 1
         ELSE 0
    ELSE IF <<x, y>> = <<1, 1>> THEN 2
         ELSE IF x <= 1 \/ y <= 1 \/ (x <= Len(source) + 1 /\ y <= Len(target) + 1) THEN 1
         ELSE 0

\* C10, amended: no cell is written twice except cell (1,1) of
\* damerau_levenshtein, which both border loops set; every cell an
\* inner-loop iteration reads has been written before, except cell (0,0) of
\* levenshtein, which is never written; a finished run has written the
\* border and the cells up to the character counts, and the final read is
\* of a cell never written exactly when that cell is outside them.
C10_WritesAndReads ==
    /\ \A p \in Cells(matrix) :
           Writes(matrix, p[1], p[2]) <= (IF fn = "dam" /\ p = <<1, 1>> THEN 2 ELSE 1)
    /\ matrix.stale \subseteq (IF fn = "lev" THEN {<<0, 0>>} ELSE {})
    /\ (pc = "done" /\ (fn = "lev" \/ matrix # NoArray)) =>
           /\ \A p \in Cells(matrix) : Writes(matrix, p[1], p[2]) = FinalWrites(p[1], p[2])
           /\ retStale <=> IF fn = "lev" THEN FinalWrites(n, m) = 0
                           ELSE FinalWrites(n + 1, m + 1) = 0
    /\ (pc = "done" /\ fn = "dam" /\ matrix = NoArray) => ~retStale

C10_Witness ==
    /\ pc = "done" /\ fn = "dam"
    /\ Len(source) = 2 /\ Len(target) = 2
    /\ matrix # NoArray
    /\ Writes(matrix, 1, 1) = 2
    /\ Writes(matrix, n + 1, m + 1) = 0
    /\ retStale

====
